---- MODULE Spec2Model ----
(***************************************************************************)
(* AgentBox: the policy engine (agentbox/policy.py) and the runtime loop   *)
(* (agentbox/runtime.py) with its audit log (agentbox/logger.py).          *)
(*                                                                         *)
(* Python str values that the code inspects character by character (URLs,  *)
(* hosts, HTTP methods, paths, glob patterns) are sequences of             *)
(* one-character strings.  Names that are only compared for equality       *)
(* (tool names, roles, event types) are TLA+ strings.                      *)
(***************************************************************************)
EXTENDS Integers, Sequences, FiniteSets, TLC

(***************************************************************************)
(* Bounds of the model.                                                    *)
(***************************************************************************)
MaxIterations == 2
MaxClock == 2

(***************************************************************************)
(* Python values.  A JSON argument value is tagged with its type; Absent   *)
(* stands for a key that the argument mapping does not hold.               *)
(***************************************************************************)
Str(s) == [t |-> "str", v |-> s]
None == [t |-> "none", v |-> << >>]
Num == [t |-> "int", v |-> << >>]
Absent == [t |-> "absent", v |-> << >>]

\* dict.get(key, default) on an argument mapping
ArgGet(args, key, default) ==
    IF args[key].t = "absent" THEN default ELSE args[key]

\* dict.get(key, default) on a mapping of the policy document
Get(d, key, default) == IF key \in DOMAIN d THEN d[key] ELSE default

\* Python truthiness of an argument value
Truthy(x) ==
    CASE x.t = "str" -> x.v # << >>
      [] x.t = "int" -> TRUE
      [] OTHER -> FALSE

\* x in list
InList(x, list) == \E i \in 1..Len(list) : list[i] = x

(***************************************************************************)
(* str operations                                                          *)
(***************************************************************************)
LowerCase == <<"g", "e", "t", "p", "o", "s">>
UpperCase == <<"G", "E", "T", "P", "O", "S">>
Letters == {"a", "b", "c", "d", "f", "h", "u", "x"}
              \cup {LowerCase[i] : i \in 1..Len(LowerCase)}
              \cup {UpperCase[i] : i \in 1..Len(UpperCase)}
scheme_chars == Letters \cup {"8", "+", "-", "."}

UpperChar(c) ==
    IF \E i \in 1..Len(LowerCase) : LowerCase[i] = c
    THEN UpperCase[CHOOSE i \in 1..Len(LowerCase) : LowerCase[i] = c]
    ELSE c

\* Upper that leaves the letters as they are
Upper_id(s) == s

\* str.upper()
Upper(s) == [i \in 1..Len(s) |-> UpperChar(s[i])]

\* str.find(c, start) with 1-based positions; 0 when c does not occur
Find(s, c, start) ==
    LET hits == {i \in start..Len(s) : s[i] = c}
    IN IF hits = {} THEN 0 ELSE CHOOSE i \in hits : \A j \in hits : i <= j

\* s[from:] with a 1-based first position
Tail_(s, from) == SubSeq(s, from, Len(s))

\* str.startswith / str.endswith
StartsWith(s, pre) == Len(pre) <= Len(s) /\ SubSeq(s, 1, Len(pre)) = pre
EndsWith(s, suf) ==
    Len(suf) <= Len(s) /\ SubSeq(s, Len(s) - Len(suf) + 1, Len(s)) = suf

\* str.split(c)
RECURSIVE Split(_, _)
Split(s, c) ==
    LET i == Find(s, c, 1)
    IN IF i = 0 THEN <<s>>
       ELSE <<SubSeq(s, 1, i - 1)>> \o Split(Tail_(s, i + 1), c)

\* c.join(parts)
RECURSIVE Join(_, _)
Join(parts, c) ==
    IF parts = << >> THEN << >>
    ELSE IF Len(parts) = 1 THEN parts[1]
    ELSE parts[1] \o <<c>> \o Join(Tail(parts), c)

(***************************************************************************)
(* urllib.parse.urlparse(url).netloc, as policy.py line 70 uses it.        *)
(* NetlocOf gives [ok, netloc]; ok = FALSE is the ValueError that urlsplit *)
(* raises for an unbalanced bracket in the network location.               *)
(***************************************************************************)
SchemeEnd(url) ==
    LET i == Find(url, ":", 1)
    IN IF i > 1 /\ url[1] \in Letters
          /\ \A k \in 1..(i - 1) : url[k] \in scheme_chars
       THEN i ELSE 0

NetlocEnd(rest) ==
    LET ds == {i \in 3..Len(rest) : rest[i] \in {"/", "?", "#"}}
    IN IF ds = {} THEN Len(rest) + 1
       ELSE CHOOSE i \in ds : \A j \in ds : i <= j

NetlocOf(url) ==
    LET rest == Tail_(url, SchemeEnd(url) + 1)
    IN IF StartsWith(rest, <<"/", "/">>)
       THEN LET netloc == SubSeq(rest, 3, NetlocEnd(rest) - 1)
                open == \E i \in 1..Len(netloc) : netloc[i] = "["
                close == \E i \in 1..Len(netloc) : netloc[i] = "]"
            IN [ok |-> open = close, netloc |-> netloc]
       ELSE [ok |-> TRUE, netloc |-> << >>]

(***************************************************************************)
(* os.path.normpath (posixpath)                                            *)
(***************************************************************************)
RECURSIVE NormComps(_, _, _)
NormComps(comps, new_comps, initial_slashes) ==
    IF comps = << >> THEN new_comps
    ELSE LET comp == Head(comps)
             n == Len(new_comps)
         IN IF comp = << >> \/ comp = <<".">>
            THEN NormComps(Tail(comps), new_comps, initial_slashes)
            ELSE IF comp # <<".", ".">>
                    \/ (initial_slashes = 0 /\ n = 0)
                    \/ (n > 0 /\ new_comps[n] = <<".", ".">>)
            THEN NormComps(Tail(comps), Append(new_comps, comp), initial_slashes)
            ELSE IF n > 0
            THEN NormComps(Tail(comps), SubSeq(new_comps, 1, n - 1), initial_slashes)
            ELSE NormComps(Tail(comps), new_comps, initial_slashes)

\* normpath that returns the path as it is
normpath_id(path) == path

normpath(path) ==
    IF path = << >> THEN <<".">>
    ELSE LET initial_slashes ==
                 IF ~StartsWith(path, <<"/">>) THEN 0
                 ELSE IF StartsWith(path, <<"/", "/">>)
                         /\ ~StartsWith(path, <<"/", "/", "/">>) THEN 2
                 ELSE 1
             joined == Join(NormComps(Split(path, "/"), << >>, initial_slashes), "/")
             res == [i \in 1..initial_slashes |-> "/"] \o joined
         IN IF res = << >> THEN <<".">> ELSE res

(***************************************************************************)
(* fnmatch.fnmatch on POSIX (normcase is the identity): "*" matches any    *)
(* run of characters, "/" included, and "?" any one character.  Patterns   *)
(* of the model hold no "[".                                               *)
(***************************************************************************)
RECURSIVE fnmatch(_, _)
fnmatch(name, pat) ==
    IF pat = << >> THEN name = << >>
    ELSE IF Head(pat) = "*"
    THEN \E k \in 0..Len(name) : fnmatch(Tail_(name, k + 1), Tail(pat))
    ELSE IF name = << >> THEN FALSE
    ELSE (Head(pat) = "?" \/ Head(pat) = Head(name))
         /\ fnmatch(Tail(name), Tail(pat))

(***************************************************************************)
(* pathlib.PurePosixPath(path).match(pattern), Python 3.8-3.11.            *)
(* PathRoot and PathParts are parse_parts; the root is one of the parts.   *)
(* PathMatch gives [ok, m]; ok = FALSE is ValueError("empty pattern").     *)
(***************************************************************************)
PathRoot(p) ==
    IF ~StartsWith(p, <<"/">>) THEN << >>
    ELSE IF StartsWith(p, <<"/", "/">>) /\ ~StartsWith(p, <<"/", "/", "/">>)
    THEN <<"/", "/">>
    ELSE <<"/">>

PathParts(p) ==
    LET comps == Split(p, "/")
        kept == SelectSeq(comps, LAMBDA c : c # << >> /\ c # <<".">>)
    IN IF PathRoot(p) = << >> THEN kept ELSE <<PathRoot(p)>> \o kept

PathMatch(path, path_pattern) ==
    LET pat_parts == PathParts(path_pattern)
        parts == PathParts(path)
        root == PathRoot(path_pattern)
        np == Len(parts)
        nq == Len(pat_parts)
    IN IF pat_parts = << >> THEN [ok |-> FALSE, m |-> FALSE]
       ELSE IF root # << >> /\ root # PathRoot(path) THEN [ok |-> TRUE, m |-> FALSE]
       ELSE IF root # << >>
       THEN [ok |-> TRUE,
             m |-> nq = np
                   /\ \A k \in 0..(nq - 2) :
                          fnmatch(parts[np - k], pat_parts[nq - k])]
       ELSE [ok |-> TRUE,
             m |-> nq <= np
                   /\ \A k \in 0..(nq - 1) :
                          fnmatch(parts[np - k], pat_parts[nq - k])]

(***************************************************************************)
(* agentbox/policy.py                                                      *)
(***************************************************************************)
\* float('inf'): larger than every counter and every clock reading
Inf == 1000000

EmptyDict == << >>
EmptyList == << >>
NoArg == Str(<< >>)

\* The f-string of a reason, kept as its template and the values it embeds.
Reason(text, tool, arg, arg2, list) ==
    [text |-> text, tool |-> tool, arg |-> arg, arg2 |-> arg2, list |-> list]

\* PolicyDecision(allowed, reason); raised = TRUE stands for an exception
\* that leaves validate instead of a decision (reason.text names it).
PolicyDecision(allowed, reason) ==
    [raised |-> FALSE, allowed |-> allowed, reason |-> reason]
Raise(error) ==
    [raised |-> TRUE, allowed |-> FALSE,
     reason |-> Reason(error, "", NoArg, NoArg, EmptyList)]

\* isinstance(value, dict) for a value of the policy document: a mapping
\* and not a tagged scalar
IsMapping(value) == "t" \notin DOMAIN value

\* the exception that leaves Policy.load(yaml_path) or Policy(policy_data)
\* in place of a Policy
LoadRaises(error, policy_data) == [load_error |-> error, policy_data |-> policy_data]
Loaded(pol) == "load_error" \notin DOMAIN pol

\* PolicyOf with limits that default to zero
PolicyOf_zero(policy_data) ==
    LET limits == Get(policy_data, "limits", EmptyDict)
    IN [tools |-> Get(policy_data, "tools", EmptyDict),
        limits |-> limits,
        max_tool_calls |-> Get(limits, "max_tool_calls", 0),
        max_runtime_seconds |-> Get(limits, "max_runtime_seconds", 0)]

\* Policy.__init__; self.limits.get raises AttributeError when the limits
\* section is not a mapping
PolicyOf(policy_data) ==
    LET limits == Get(policy_data, "limits", EmptyDict)
    IN IF ~IsMapping(limits)
       THEN LoadRaises("AttributeError", policy_data)
       ELSE [tools |-> Get(policy_data, "tools", EmptyDict),
             limits |-> limits,
             max_tool_calls |-> Get(limits, "max_tool_calls", Inf),
             max_runtime_seconds |-> Get(limits, "max_runtime_seconds", Inf)]

\* Policy.load: Absent stands for a yaml_path that does not exist, any
\* other policy_data for what yaml.safe_load returns
load(policy_data) ==
    IF policy_data = Absent
    THEN LoadRaises("FileNotFoundError", policy_data)
    ELSE IF ~IsMapping(policy_data)
    THEN LoadRaises("ValueError", policy_data)
    ELSE PolicyOf(policy_data)

\* _domain_matches on a suffix without the dot before it
_domain_matches_suffix(domain, pattern) ==
    domain = pattern \/ EndsWith(domain, pattern)

\* Policy._domain_matches
_domain_matches(domain, pattern) ==
    domain = pattern \/ EndsWith(domain, <<".">> \o pattern)

\* Policy._validate_web_request
_validate_web_request(args, tool_policy) ==
    LET url == ArgGet(args, "url", Str(<< >>))
        method_arg == ArgGet(args, "method", Str(<<"G", "E", "T">>))
        method == Upper(method_arg.v)
        parsed == NetlocOf(url.v)
        domain == Split(parsed.netloc, ":")[1]
        allow_domains == Get(tool_policy, "allow_domains", EmptyList)
        allow_methods == Get(tool_policy, "allow_methods", EmptyList)
        domain_allowed ==
            \E i \in 1..Len(allow_domains) : _domain_matches(domain, allow_domains[i])
    IN IF method_arg.t # "str" THEN Raise("AttributeError")
       ELSE IF url.t # "str" \/ ~parsed.ok
       THEN PolicyDecision(FALSE,
                Reason("Invalid URL format: {url}", "", url, NoArg, EmptyList))
       ELSE IF ~InList(<<"*">>, allow_domains) /\ ~domain_allowed
       THEN PolicyDecision(FALSE,
                Reason("Domain '{domain}' not in allow_domains: {allow_domains}",
                       "", Str(domain), NoArg, allow_domains))
       ELSE IF ~InList(method, allow_methods)
       THEN PolicyDecision(FALSE,
                Reason("HTTP method '{method}' not in allow_methods: {allow_methods}",
                       "", Str(method), NoArg, allow_methods))
       ELSE PolicyDecision(TRUE,
                Reason("Allowed: domain '{domain}' and method '{method}'",
                       "", Str(domain), Str(method), EmptyList))

\* One pattern of allow_paths against the normalized path (policy.py 109-118)
PatternMatches(normalized_path, pattern) ==
    LET normalized_pattern == normpath(pattern)
        pm == PathMatch(normalized_path, normalized_pattern)
    IN fnmatch(normalized_path, normalized_pattern) \/ (pm.ok /\ pm.m)

\* Policy._validate_read_file
_validate_read_file(args, tool_policy) ==
    LET path == ArgGet(args, "path", Str(<< >>))
        allow_paths == Get(tool_policy, "allow_paths", EmptyList)
        normalized_path == normpath(path.v)
        hits == {i \in 1..Len(allow_paths) :
                     PatternMatches(normalized_path, allow_paths[i])}
        first == CHOOSE i \in hits : \A j \in hits : i <= j
    IN IF ~Truthy(path)
       THEN PolicyDecision(FALSE, Reason("No path provided", "", NoArg, NoArg, EmptyList))
       ELSE IF path.t # "str" THEN Raise("TypeError")
       ELSE IF InList(<<".", "/", "*", "*">>, allow_paths)
               \/ InList(<<"*", "*">>, allow_paths)
       THEN PolicyDecision(TRUE,
                Reason("Allowed: wildcard pattern", "", NoArg, NoArg, EmptyList))
       ELSE IF hits # {}
       THEN PolicyDecision(TRUE,
                Reason("Allowed: path '{path}' matches '{pattern}'",
                       "", path, Str(allow_paths[first]), EmptyList))
       ELSE PolicyDecision(FALSE,
                Reason("Path '{path}' not in allow_paths: {allow_paths}",
                       "", path, NoArg, allow_paths))

\* DefaultDeny allowing what the policy does not name
DefaultDeny_allow(tool_name) ==
    PolicyDecision(TRUE,
        Reason("Tool '{tool_name}' is not in the policy (default deny)",
               tool_name, NoArg, NoArg, EmptyList))

\* Policy.validate, lines 48-51
DefaultDeny(tool_name) ==
    PolicyDecision(FALSE,
        Reason("Tool '{tool_name}' is not in the policy (default deny)",
               tool_name, NoArg, NoArg, EmptyList))

\* validate with the web rule for every tool that is not read_file
validate_webelse(pol, tool_name, tool_args) ==
    IF tool_name \notin DOMAIN pol.tools
    THEN DefaultDeny(tool_name)
    ELSE IF tool_name = "read_file"
    THEN _validate_read_file(tool_args, pol.tools[tool_name])
    ELSE _validate_web_request(tool_args, pol.tools[tool_name])

\* Policy.validate; "tool_name not in self.tools" raises TypeError when
\* self.tools is not a mapping
validate(pol, tool_name, tool_args) ==
    IF ~IsMapping(pol.tools)
    THEN Raise("TypeError")
    ELSE IF tool_name \notin DOMAIN pol.tools
    THEN DefaultDeny(tool_name)
    ELSE IF tool_name = "web_request"
    THEN _validate_web_request(tool_args, pol.tools[tool_name])
    ELSE IF tool_name = "read_file"
    THEN _validate_read_file(tool_args, pol.tools[tool_name])
    ELSE PolicyDecision(FALSE,
             Reason("No validation logic for tool '{tool_name}'",
                    tool_name, NoArg, NoArg, EmptyList))

(***************************************************************************)
(* agentbox/logger.py: one audit event, with every field of every kind.    *)
(***************************************************************************)
NoReason == Reason("", "", NoArg, NoArg, EmptyList)
NoArgs == [url |-> Absent, method |-> Absent, path |-> Absent]

\* AuditLogger.log_event
log_event(timestamp, event_type, data) ==
    [timestamp |-> timestamp, event_type |-> event_type,
     tool_name |-> data.tool_name, args |-> data.args,
     allowed |-> data.allowed, reason |-> data.reason,
     success |-> data.success, result |-> data.result, error |-> data.error]

NoData ==
    [tool_name |-> "", args |-> NoArgs, allowed |-> FALSE, reason |-> NoReason,
     success |-> FALSE, result |-> "", error |-> [text |-> "", reason |-> NoReason]]

\* log_tool_validation that leaves the arguments out of the event
log_tool_validation_noargs(timestamp, tool_name, args, allowed, reason) ==
    log_event(timestamp, "tool_validation",
              [NoData EXCEPT !.tool_name = tool_name,
                             !.allowed = allowed, !.reason = reason])

\* AuditLogger.log_tool_validation
log_tool_validation(timestamp, tool_name, args, allowed, reason) ==
    log_event(timestamp, "tool_validation",
              [NoData EXCEPT !.tool_name = tool_name, !.args = args,
                             !.allowed = allowed, !.reason = reason])

\* AuditLogger.log_tool_result; results of the model are shorter than the
\* 200 characters the preview keeps
log_tool_result(timestamp, tool_name, success, result, error) ==
    log_event(timestamp, "tool_result",
              [NoData EXCEPT !.tool_name = tool_name, !.success = success,
                             !.result = result, !.error = error])

\* AuditLogger.log_runtime_error
log_runtime_error(timestamp, error) ==
    log_event(timestamp, "runtime_error",
              [NoData EXCEPT !.error = [text |-> error, reason |-> NoReason]])

(***************************************************************************)
(* agentbox/runtime.py: values                                             *)
(***************************************************************************)
Runs == {1, 2}

\* Optional[str] content of a model turn, and the content of a message
NoneContent == [kind |-> "none", text |-> "", reason |-> NoReason]
Text(s) == [kind |-> "text", text |-> s, reason |-> NoReason]

\* an error text: a template and the policy reason it embeds, if any
Error(text, reason) == [text |-> text, reason |-> reason]
NoError == Error("", NoReason)

\* ToolInvocation
ToolInvocation(name, args, call_id) ==
    [name |-> name, args |-> args, call_id |-> call_id]

Message(role, content, tcs, call_id, name) ==
    [role |-> role, content |-> content, tool_calls |-> tcs,
     tool_call_id |-> call_id, name |-> name]

\* AgentRuntime._tool_success_result
_tool_success_result(call_id, tool_name, result) ==
    Message("tool", [kind |-> "result", text |-> result, reason |-> NoReason],
            << >>, call_id, tool_name)

\* _tool_error_result without the tool_call_id of the invocation
_tool_error_result_noid(call_id, tool_name, error) ==
    Message("tool", [kind |-> "error", text |-> error.text, reason |-> error.reason],
            << >>, 0, tool_name)

\* AgentRuntime._tool_error_result
_tool_error_result(call_id, tool_name, error) ==
    Message("tool", [kind |-> "error", text |-> error.text, reason |-> error.reason],
            << >>, call_id, tool_name)

\* AgentRuntime._format_tool_calls_for_openai
_format_tool_calls_for_openai(tcs) ==
    [i \in 1..Len(tcs) |->
        [id |-> tcs[i].call_id, type |-> "function",
         function |-> [name |-> tcs[i].name, arguments |-> tcs[i].args]]]

\* ContentOrEmpty as str(content)
ContentOrEmpty_str(content) == IF content.kind = "none" THEN "None" ELSE content.text

\* content or ""
ContentOrEmpty(content) == IF content.kind = "none" THEN "" ELSE content.text

(***************************************************************************)
(* The inputs of the model: policy documents, tool registries, and what    *)
(* the model client may answer.                                            *)
(***************************************************************************)
S_GET == <<"G", "E", "T">>
S_POST == <<"P", "O", "S", "T">>
S_post == <<"p", "o", "s", "t">>
S_star == <<"*">>
Host_ab == <<"a", ".", "b">>
Url_ab == <<"h", "t", "t", "p", ":", "/", "/", "a", ".", "b", "/">>
Url_xc == <<"h", "t", "t", "p", ":", "/", "/", "x", ".", "c", "/">>
Path_dft == <<"/", "d", "/", "f", ".", "t">>
Pat_dt == <<"/", "d", "/", "*", ".", "t">>

RestrictedTools ==
    [web_request |-> [allow_domains |-> <<Host_ab>>, allow_methods |-> <<S_GET>>],
     read_file |-> [allow_paths |-> <<Pat_dt>>]]
OpenTools ==
    [web_request |-> [allow_domains |-> <<S_star>>, allow_methods |-> <<S_GET, S_POST>>],
     calc |-> EmptyDict]

PolicyDocuments ==
    { EmptyDict,
      [tools |-> OpenTools],
      [tools |-> RestrictedTools, limits |-> [max_tool_calls |-> 1]],
      [tools |-> RestrictedTools, limits |-> [max_tool_calls |-> 0]],
      [tools |-> OpenTools,
       limits |-> [max_tool_calls |-> 3, max_runtime_seconds |-> 1]] }

Registries == { {"web_request", "read_file", "calc"}, {"read_file", "calc"} }

\* the invocations a model turn may propose: name and args
WebGet == [name |-> "web_request",
           args |-> [url |-> Str(Url_ab), method |-> Absent, path |-> Absent]]
WebPost == [name |-> "web_request",
            args |-> [url |-> Str(Url_xc), method |-> Str(S_post), path |-> Absent]]
ReadFile == [name |-> "read_file",
             args |-> [url |-> Absent, method |-> Absent, path |-> Str(Path_dft)]]
Calc == [name |-> "calc", args |-> NoArgs]
Ghost == [name |-> "ghost", args |-> NoArgs]

\* the answers of model_client.chat: the content and the proposed invocations
Turn(c, ps) == [content |-> c, proposals |-> ps]
Turns ==
    { Turn(NoneContent, << >>),
      Turn(Text("answer"), << >>),
      Turn(NoneContent, <<WebGet>>),
      Turn(Text("answer"), <<WebPost, WebGet>>),
      Turn(NoneContent, <<Ghost, Calc>>),
      Turn(NoneContent, <<ReadFile, WebGet>>) }

(***************************************************************************)
(* State.  policy, tools and logger are the fields of the AgentRuntime;    *)
(* log is the audit file; clock is the wall clock.  The other variables    *)
(* are the locals of one call of AgentRuntime.run, one copy per run.       *)
(* model_calls, validated and executed record, in order, the calls a run   *)
(* made to model_client.chat, Policy.validate and SafeTool.execute.        *)
(***************************************************************************)
VARIABLES policy, tools, logger, log, clock, repertoire,
          pc, max_iterations, messages, start_time, tool_call_count, iteration,
          content, tool_calls, tc_index, tool_results, result, exc, outcome,
          model_calls, validated, executed

shared == <<policy, tools, logger, repertoire>>
locals == <<messages, start_time, tool_call_count, iteration,
            content, tool_calls, tc_index, tool_results, result, exc, outcome>>
calls == <<model_calls, validated, executed>>
vars == <<policy, tools, logger, log, clock, repertoire,
          pc, max_iterations, messages, start_time, tool_call_count, iteration,
          content, tool_calls, tc_index, tool_results, result, exc, outcome,
          model_calls, validated, executed>>

NoMessage == Message("", NoneContent, << >>, 0, "")
NoOutcome == [kind |-> "none", value |-> ""]

\* The locals of run(messages, max_iterations) of the runs in `active`,
\* before their first statement; the other runs are never called
LocalsInit(active) ==
    /\ pc = [r \in Runs |-> IF r \in active THEN "start" ELSE "idle"]
    /\ max_iterations \in [Runs -> 0..MaxIterations]
    /\ \A r \in Runs \ active : max_iterations[r] = 0
    /\ messages = [r \in Runs |-> <<Message("user", Text("prompt"), << >>, 0, "")>>]
    /\ start_time = [r \in Runs |-> 0]
    /\ tool_call_count = [r \in Runs |-> 0]
    /\ iteration = [r \in Runs |-> 0]
    /\ content = [r \in Runs |-> NoneContent]
    /\ tool_calls = [r \in Runs |-> << >>]
    /\ tc_index = [r \in Runs |-> 0]
    /\ tool_results = [r \in Runs |-> << >>]
    /\ result = [r \in Runs |-> NoMessage]
    /\ exc = [r \in Runs |-> ""]
    /\ outcome = [r \in Runs |-> NoOutcome]
    /\ model_calls = [r \in Runs |-> << >>]
    /\ validated = [r \in Runs |-> << >>]
    /\ executed = [r \in Runs |-> << >>]

\* The state after AgentRuntime(model_client, tools, policy, logger) and
\* before run(messages, max_iterations) of the runs in `active`
InitWith(active) ==
    /\ policy \in {PolicyOf(d) : d \in PolicyDocuments}
    /\ tools \in Registries
    /\ logger \in BOOLEAN
    /\ log = << >>
    /\ clock = 0
    /\ repertoire = Turns
    /\ LocalsInit(active)

Init == InitWith({1})

\* self.logger.log_...(...) under "if self.logger:"
Logged(event) == IF logger THEN Append(log, event) ELSE log

\* RunStart with the counter and the start time kept on the AgentRuntime,
\* one for all its runs
RunStart_shared(r) ==
    /\ pc[r] = "start"
    /\ start_time' = [q \in Runs |-> clock]
    /\ tool_call_count' = [q \in Runs |-> 0]
    /\ iteration' = [iteration EXCEPT ![r] = 0]
    /\ pc' = [pc EXCEPT ![r] = "for"]
    /\ UNCHANGED <<shared, log, clock, max_iterations, messages, content, tool_calls,
                   tc_index, tool_results, result, exc, outcome, calls>>

\* run, lines 49-50
RunStart(r) ==
    /\ pc[r] = "start"
    /\ start_time' = [start_time EXCEPT ![r] = clock]
    /\ tool_call_count' = [tool_call_count EXCEPT ![r] = 0]
    /\ iteration' = [iteration EXCEPT ![r] = 0]
    /\ pc' = [pc EXCEPT ![r] = "for"]
    /\ UNCHANGED <<shared, log, clock, max_iterations, messages, content, tool_calls,
                   tc_index, tool_results, result, exc, outcome, calls>>

\* ForIteration with one iteration more than range(max_iterations) has
ForIteration_extra(r) ==
    /\ pc[r] = "for"
    /\ IF iteration[r] <= max_iterations[r]
       THEN /\ pc' = [pc EXCEPT ![r] = "budget"]
            /\ exc' = exc
       ELSE /\ pc' = [pc EXCEPT ![r] = "except"]
            /\ exc' = [exc EXCEPT ![r] = "MaxIterationsError"]
    /\ UNCHANGED <<shared, log, clock, max_iterations, messages, start_time,
                   tool_call_count, iteration, content, tool_calls, tc_index,
                   tool_results, result, outcome, calls>>

\* run, line 53 ("for iteration in range(max_iterations)") and, when the
\* range is exhausted, line 93
ForIteration(r) ==
    /\ pc[r] = "for"
    /\ IF iteration[r] < max_iterations[r]
       THEN /\ pc' = [pc EXCEPT ![r] = "budget"]
            /\ exc' = exc
       ELSE /\ pc' = [pc EXCEPT ![r] = "except"]
            /\ exc' = [exc EXCEPT ![r] = "MaxIterationsError"]
    /\ UNCHANGED <<shared, log, clock, max_iterations, messages, start_time,
                   tool_call_count, iteration, content, tool_calls, tc_index,
                   tool_results, result, outcome, calls>>

\* run, line 56
RuntimeLimitExceeded(elapsed) == elapsed > policy.max_runtime_seconds

\* ToolCallLimitExceeded with the guard of line 62 left out
ToolCallLimitExceeded_never(count) == FALSE

\* ToolCallLimitExceeded with > for >=
ToolCallLimitExceeded_strict(count) == count > policy.max_tool_calls

\* run, line 62
ToolCallLimitExceeded(count) == count >= policy.max_tool_calls

\* run, lines 55-66: time.time() reads the clock, which has moved on by
\* any amount since it was last read
BudgetEnforcement(r) ==
    /\ pc[r] = "budget"
    /\ \E now \in clock..MaxClock :
         LET elapsed == now - start_time[r]
         IN /\ clock' = now
            /\ IF RuntimeLimitExceeded(elapsed)
               THEN /\ log' = Logged(log_runtime_error(now, "Runtime limit exceeded"))
                    /\ exc' = [exc EXCEPT ![r] = "BudgetExceededError"]
                    /\ pc' = [pc EXCEPT ![r] = "except"]
               ELSE IF ToolCallLimitExceeded(tool_call_count[r])
               THEN /\ log' = Logged(log_runtime_error(now, "Tool call limit exceeded"))
                    /\ exc' = [exc EXCEPT ![r] = "BudgetExceededError"]
                    /\ pc' = [pc EXCEPT ![r] = "except"]
               ELSE /\ log' = log
                    /\ exc' = exc
                    /\ pc' = [pc EXCEPT ![r] = "chat"]
    /\ UNCHANGED <<shared, max_iterations, messages, start_time, tool_call_count,
                   iteration, content, tool_calls, tc_index, tool_results, result,
                   outcome, calls>>

\* The call ids the model client gives the invocations of one turn
CallId(r, turn, i) == 100 * r + 10 * turn + i

\* run, lines 68-77: model_client.chat returns (content, tool_calls)
ChatReturns(r) ==
    /\ pc[r] = "chat"
    /\ \E turn \in repertoire :
         LET c == turn.content
             ps == turn.proposals
             tcs == [i \in 1..Len(ps) |->
                        ToolInvocation(ps[i].name, ps[i].args,
                                       CallId(r, Len(model_calls[r]) + 1, i))]
         IN /\ model_calls' = [model_calls EXCEPT ![r] =
                  Append(@, [seen |-> messages[r], raised |-> FALSE,
                             proposed |-> Len(ps)])]
            /\ content' = [content EXCEPT ![r] = c]
            /\ tool_calls' = [tool_calls EXCEPT ![r] = tcs]
            /\ IF tcs = << >>
               THEN /\ outcome' = [outcome EXCEPT ![r] =
                                      [kind |-> "return", value |-> ContentOrEmpty(c)]]
                    /\ pc' = [pc EXCEPT ![r] = "done"]
                    /\ UNCHANGED <<tool_results, tc_index>>
               ELSE /\ tool_results' = [tool_results EXCEPT ![r] = << >>]
                    /\ tc_index' = [tc_index EXCEPT ![r] = 1]
                    /\ pc' = [pc EXCEPT ![r] = "tool"]
                    /\ outcome' = outcome
    /\ UNCHANGED <<shared, log, clock, max_iterations, messages, start_time,
                   tool_call_count, iteration, result, exc, validated, executed>>

\* run, line 70: model_client.chat raises
ChatRaises(r) ==
    /\ pc[r] = "chat"
    /\ model_calls' = [model_calls EXCEPT ![r] =
          Append(@, [seen |-> messages[r], raised |-> TRUE, proposed |-> 0])]
    /\ exc' = [exc EXCEPT ![r] = "Exception"]
    /\ pc' = [pc EXCEPT ![r] = "except"]
    /\ UNCHANGED <<shared, log, clock, max_iterations, messages, start_time,
                   tool_call_count, iteration, content, tool_calls, tc_index,
                   tool_results, result, outcome, validated, executed>>

\* the invocation "for tc in tool_calls" is at
CurrentCall(r) == tool_calls[r][tc_index[r]]

\* Denied without the test of decision.allowed
Denied_never(decision) == FALSE

\* _execute_tool, line 126
Denied(decision) == ~decision.allowed

\* DenyCall raising PolicyDeniedError instead of returning a result
DenyCall_raise(r, tc, decision) ==
    /\ result' = result
    /\ exc' = [exc EXCEPT ![r] = "PolicyDeniedError"]
    /\ pc' = [pc EXCEPT ![r] = "except"]

\* _execute_tool, lines 127-128: the denial becomes the invocation's result
DenyCall(r, tc, decision) ==
    /\ result' = [result EXCEPT ![r] =
          _tool_error_result(tc.call_id, tc.name,
              Error("Policy denied: {decision.reason}", decision.reason))]
    /\ exc' = exc
    /\ pc' = [pc EXCEPT ![r] = "tally"]

\* Registered that finds every tool name
Registered_all(tool_name) == TRUE

\* _execute_tool, line 107: "tool_name in self.tools"
Registered(tool_name) == tool_name \in tools

\* _execute_tool, lines 102-128: the registry lookup, Policy.validate, the
\* tool_validation event and the denial result.  An allowed invocation goes
\* on to tool.execute; any other has its result.
ValidateCall(r) ==
    /\ pc[r] = "tool"
    /\ LET tc == CurrentCall(r)
           decision == validate(policy, tc.name, tc.args)
       IN IF ~Registered(tc.name)
          THEN /\ log' = Logged(log_tool_result(clock, tc.name, FALSE, "",
                                    Error("Tool '{tool_name}' not found", NoReason)))
               /\ result' = [result EXCEPT ![r] =
                     _tool_error_result(tc.call_id, tc.name,
                         Error("Tool '{tool_name}' not found", NoReason))]
               /\ pc' = [pc EXCEPT ![r] = "tally"]
               /\ UNCHANGED <<validated, exc>>
          ELSE /\ validated' = [validated EXCEPT ![r] =
                     Append(@, [call_id |-> tc.call_id, name |-> tc.name,
                                args |-> tc.args, decision |-> decision])]
               /\ IF decision.raised
                  THEN /\ exc' = [exc EXCEPT ![r] = decision.reason.text]
                       /\ pc' = [pc EXCEPT ![r] = "except"]
                       /\ UNCHANGED <<log, result>>
                  ELSE /\ log' = Logged(log_tool_validation(clock, tc.name, tc.args,
                                            decision.allowed, decision.reason))
                       /\ IF Denied(decision)
                          THEN DenyCall(r, tc, decision)
                          ELSE /\ result' = result
                               /\ exc' = exc
                               /\ pc' = [pc EXCEPT ![r] = "execute"]
    /\ UNCHANGED <<shared, clock, max_iterations, messages, start_time,
                   tool_call_count, iteration, content, tool_calls, tc_index,
                   tool_results, outcome, model_calls, executed>>

\* ToolFailed without the try/except around tool.execute
ToolFailed_uncaught(r, tc) ==
    /\ log' = log
    /\ result' = result
    /\ exc' = [exc EXCEPT ![r] = "ToolError"]
    /\ pc' = [pc EXCEPT ![r] = "except"]

\* _execute_tool, lines 136-139: the Exception of tool.execute is caught
\* and becomes the invocation's result
ToolFailed(r, tc) ==
    /\ log' = Logged(log_tool_result(clock, tc.name, FALSE, "",
                         Error("tool failed", NoReason)))
    /\ result' = [result EXCEPT ![r] =
          _tool_error_result(tc.call_id, tc.name, Error("tool failed", NoReason))]
    /\ exc' = exc
    /\ pc' = [pc EXCEPT ![r] = "tally"]

\* _execute_tool, lines 130-139: tool.execute(tool_args) returns a result or
\* raises an Exception; either way the tool_result event and the result
ExecuteCall(r) ==
    /\ pc[r] = "execute"
    /\ \E ok \in BOOLEAN :
         LET tc == CurrentCall(r)
         IN /\ executed' = [executed EXCEPT ![r] =
                  Append(@, [call_id |-> tc.call_id, name |-> tc.name,
                             args |-> tc.args, ok |-> ok])]
            /\ IF ok
               THEN /\ log' = Logged(log_tool_result(clock, tc.name, TRUE, "data", NoError))
                    /\ result' = [result EXCEPT ![r] =
                          _tool_success_result(tc.call_id, tc.name, "data")]
                    /\ exc' = exc
                    /\ pc' = [pc EXCEPT ![r] = "tally"]
               ELSE ToolFailed(r, tc)
    /\ UNCHANGED <<shared, clock, max_iterations, messages, start_time,
                   tool_call_count, iteration, content, tool_calls, tc_index,
                   tool_results, outcome, model_calls, validated>>

\* CountedCalls with line 81 left out
CountedCalls_none(tc) == 0

\* what line 81 adds to tool_call_count for the invocation tc
CountedCalls(tc) == 1

\* TallyCall that leaves the for loop after the first invocation
TallyCall_first(r) ==
    /\ pc[r] = "tally"
    /\ tool_results' = [tool_results EXCEPT ![r] = Append(@, result[r])]
    /\ tool_call_count' = [tool_call_count EXCEPT ![r] = @ + CountedCalls(CurrentCall(r))]
    /\ tc_index' = tc_index
    /\ pc' = [pc EXCEPT ![r] = "append"]
    /\ UNCHANGED <<shared, log, clock, max_iterations, messages, start_time,
                   iteration, content, tool_calls, result, exc, outcome, calls>>

\* run, lines 78-81: the result joins tool_results, the counter moves, and
\* the for loop takes the next invocation or ends
TallyCall(r) ==
    /\ pc[r] = "tally"
    /\ tool_results' = [tool_results EXCEPT ![r] = Append(@, result[r])]
    /\ tool_call_count' = [tool_call_count EXCEPT ![r] = @ + CountedCalls(CurrentCall(r))]
    /\ IF tc_index[r] < Len(tool_calls[r])
       THEN /\ tc_index' = [tc_index EXCEPT ![r] = @ + 1]
            /\ pc' = [pc EXCEPT ![r] = "tool"]
       ELSE /\ tc_index' = tc_index
            /\ pc' = [pc EXCEPT ![r] = "append"]
    /\ UNCHANGED <<shared, log, clock, max_iterations, messages, start_time,
                   iteration, content, tool_calls, result, exc, outcome, calls>>

\* run, lines 84-91, and the step of the for loop to the next iteration
AppendTurn(r) ==
    /\ pc[r] = "append"
    /\ messages' = [messages EXCEPT ![r] =
          Append(@, Message("assistant", content[r],
                            _format_tool_calls_for_openai(tool_calls[r]), 0, ""))
          \o tool_results[r]]
    /\ iteration' = [iteration EXCEPT ![r] = @ + 1]
    /\ pc' = [pc EXCEPT ![r] = "for"]
    /\ UNCHANGED <<shared, log, clock, max_iterations, start_time, tool_call_count,
                   content, tool_calls, tc_index, tool_results, result, exc, outcome,
                   calls>>

\* LoggedAtRaise with every Exception taken for logged where it was raised
LoggedAtRaise_all ==
    {"BudgetExceededError", "MaxIterationsError",
     "Exception", "AttributeError", "TypeError"}

\* the exceptions run's handler does not log (line 96)
LoggedAtRaise == {"BudgetExceededError", "MaxIterationsError"}

\* run, lines 95-98: the handler logs what was not logged and re-raises
ExceptHandler(r) ==
    /\ pc[r] = "except"
    /\ log' = IF exc[r] \notin LoggedAtRaise
              THEN Logged(log_runtime_error(clock, exc[r]))
              ELSE log
    /\ outcome' = [outcome EXCEPT ![r] = [kind |-> "raise", value |-> exc[r]]]
    /\ pc' = [pc EXCEPT ![r] = "done"]
    /\ UNCHANGED <<shared, clock, max_iterations, messages, start_time,
                   tool_call_count, iteration, content, tool_calls, tc_index,
                   tool_results, result, exc, calls>>

Next ==
    \E r \in Runs :
        \/ RunStart(r)
        \/ ForIteration(r)
        \/ BudgetEnforcement(r)
        \/ ChatReturns(r)
        \/ ChatRaises(r)
        \/ ValidateCall(r)
        \/ ExecuteCall(r)
        \/ TallyCall(r)
        \/ AppendTurn(r)
        \/ ExceptHandler(r)

Spec == Init /\ [][Next]_vars

\* the steps of run r other than ValidateCall
RunStep(r) ==
    \/ RunStart(r)
    \/ ForIteration(r)
    \/ BudgetEnforcement(r)
    \/ ChatReturns(r)
    \/ ChatRaises(r)
    \/ ExecuteCall(r)
    \/ TallyCall(r)
    \/ AppendTurn(r)
    \/ ExceptHandler(r)

\* Spec with every call that run makes returning: run is sequential code,
\* so a run that can take its next step takes it.  The condition on
\* ValidateCall(r) is WF_vars(ValidateCall(r)) with its ENABLED written as
\* the guard, pc[r] = "tool": Policy.validate gives a decision or raises
\* for every invocation.
FairSpec ==
    /\ Spec
    /\ \A r \in Runs :
          /\ WF_vars(RunStep(r))
          /\ <>[](pc[r] = "tool") => []<><<ValidateCall(r)>>_vars

(***************************************************************************)
(* Properties.                                                             *)
(***************************************************************************)
RangeOf(seq) == {seq[i] : i \in 1..Len(seq)}

\* the model turn (1, 2, ...) of run r that proposed the invocation call_id
TurnOfCall(r, call_id) == (call_id - 100 * r) \div 10

\* run r is still working on the turn that proposed call_id
InProgress(r, call_id) ==
    /\ pc[r] \in {"tool", "execute", "tally", "append"}
    /\ TurnOfCall(r, call_id) = Len(model_calls[r])

\* the conversation of run r holds the assistant entry of the turn that
\* proposed call_id, followed by one tool entry per invocation of that turn,
\* and the entry of call_id has the given content
Recorded(r, call_id, content_) ==
    \E p \in 1..Len(messages[r]) :
        LET a == messages[r][p]
            n == Len(a.tool_calls)
        IN /\ a.role = "assistant"
           /\ Len(messages[r]) >= p + n
           /\ \A q \in 1..n :
                /\ messages[r][p + q].role = "tool"
                /\ messages[r][p + q].tool_call_id = a.tool_calls[q].id
           /\ \E k \in 1..n :
                /\ a.tool_calls[k].id = call_id
                /\ messages[r][p + k].content = content_

\* C1: a tool's execute is called only for an invocation whose tool name is
\* registered and for which Policy.validate returned allowed = True on that
\* same name and args; a denied invocation is never executed, and no
\* invocation is executed twice.
C1_ExecuteOnlyIfAllowed ==
    \A r \in Runs :
        /\ \A i \in 1..Len(executed[r]) :
             LET e == executed[r][i]
             IN /\ e.name \in tools
                /\ \E j \in 1..Len(validated[r]) :
                     LET v == validated[r][j]
                     IN /\ v.call_id = e.call_id
                        /\ v.name = e.name
                        /\ v.args = e.args
                        /\ ~v.decision.raised
                        /\ v.decision.allowed
                /\ \A k \in 1..Len(executed[r]) :
                     k # i => executed[r][k].call_id # e.call_id
        /\ \A j \in 1..Len(validated[r]) :
             ~validated[r][j].decision.allowed =>
                 \A i \in 1..Len(executed[r]) :
                     executed[r][i].call_id # validated[r][j].call_id

\* a run that executed one invocation, was denied another, and was proposed
\* an unregistered tool
C1_Witness ==
    \E r \in Runs :
        /\ executed[r] # << >>
        /\ \E j \in 1..Len(validated[r]) : ~validated[r][j].decision.allowed
        /\ \E m \in RangeOf(messages[r]) :
             m.role = "tool" /\ m.name \notin tools

ToolNames == {"web_request", "read_file", "calc", "ghost"}
ArgSamples ==
    { NoArgs, WebGet.args, WebPost.args, ReadFile.args,
      [url |-> None, method |-> Str(S_GET), path |-> None],
      [url |-> Num, method |-> Num, path |-> Num] }

\* C2: Policy.validate denies every tool name that has no entry in the
\* policy's tools mapping, whatever the arguments, and so it does when the
\* tools section is absent or empty.
C2_DefaultDeny ==
    /\ \A name \in ToolNames, args \in ArgSamples :
         name \notin DOMAIN policy.tools =>
             LET d == validate(policy, name, args)
             IN ~d.raised /\ ~d.allowed
    /\ \A doc \in {EmptyDict, [tools |-> EmptyDict], [limits |-> EmptyDict]} :
         \A name \in ToolNames, args \in ArgSamples :
             LET d == validate(PolicyOf(doc), name, args)
             IN ~d.raised /\ ~d.allowed
    /\ \A r \in Runs : \A j \in 1..Len(validated[r]) :
         validated[r][j].name \notin DOMAIN policy.tools =>
             ~validated[r][j].decision.allowed

\* a run whose policy names no tool consulted validate for a registered tool
C2_Witness ==
    \E r \in Runs : \E j \in 1..Len(validated[r]) :
        /\ DOMAIN policy.tools = {}
        /\ validated[r][j].name = "web_request"
        /\ validated[r][j].decision.reason.text
               = "Tool '{tool_name}' is not in the policy (default deny)"

\* the invocations of run r that the policy denied
DeniedCalls(r) ==
    {j \in 1..Len(validated[r]) : ~validated[r][j].decision.allowed}

\* the tool entries of the conversation of run r
ToolEntries(r) ==
    {p \in 1..Len(messages[r]) : messages[r][p].role = "tool"}

\* C3: an invocation that the policy denied does not move the tool-call
\* counter: once a turn is processed, the counter has grown by no more than
\* the number of its invocations that were not denied.
C3_DeniedNotCounted ==
    \A r \in Runs :
        pc[r] \in {"for", "budget", "chat", "done"} =>
            tool_call_count[r]
                <= Cardinality(ToolEntries(r)) - Cardinality(DeniedCalls(r))

\* the invocation run r is tallying went through tool.execute
WasExecuted(r) ==
    \E i \in 1..Len(executed[r]) : executed[r][i].call_id = CurrentCall(r).call_id

\* C4: an approved invocation adds exactly one to the tool-call counter, in
\* the step after tool.execute returned or raised and not in that call, for a
\* successful and for a failed execution alike; no other step of the loop
\* moves the counter.
C4_ApprovedCountsOnce ==
    [][\A r \in Runs :
         /\ (pc[r] = "execute" /\ pc'[r] # "execute") =>
               /\ Len(executed'[r]) = Len(executed[r]) + 1
               /\ tool_call_count'[r] = tool_call_count[r]
               /\ pc'[r] = "tally"
         /\ (pc[r] = "tally" /\ pc'[r] # "tally" /\ WasExecuted(r)) =>
               tool_call_count'[r] = tool_call_count[r] + 1
         /\ pc[r] \notin {"tally", "start"} =>
               tool_call_count'[r] = tool_call_count[r]]_vars

\* a turn of two invocations is processed, one of them executed and failed
C4_Witness ==
    \E r \in Runs :
        /\ pc[r] = "append"
        /\ Len(tool_calls[r]) = 2
        /\ \E i \in 1..Len(executed[r]) :
             /\ ~executed[r][i].ok
             /\ InProgress(r, executed[r][i].call_id)

\* the budget guards, on the clock reading now
OverBudget(r, now) ==
    \/ now - start_time[r] > policy.max_runtime_seconds
    \/ tool_call_count[r] >= policy.max_tool_calls

C5_GuardsFirst ==
    [][\A r \in Runs :
         /\ (pc[r] = "budget" /\ pc'[r] # "budget" /\ OverBudget(r, clock')) =>
               /\ pc'[r] = "except"
               /\ exc'[r] = "BudgetExceededError"
               /\ model_calls'[r] = model_calls[r]
         /\ (pc[r] # "chat" /\ pc'[r] = "chat") =>
               pc[r] = "budget" /\ ~OverBudget(r, clock')
         /\ model_calls'[r] # model_calls[r] => pc[r] = "chat"]_vars

C5_ZeroBudget ==
    \A r \in Runs :
        (pc[r] = "done" /\ policy.max_tool_calls = 0 /\ max_iterations[r] >= 1) =>
            /\ outcome[r] = [kind |-> "raise", value |-> "BudgetExceededError"]
            /\ model_calls[r] = << >>

\* C5 (amended): the budget guards come first in every iteration: when the
\* elapsed time exceeds max_runtime_seconds or the counter has reached
\* max_tool_calls there, the run raises BudgetExceededError and asks for no
\* model turn in that iteration.  With max_tool_calls = 0 and max_iterations
\* >= 1 the run raises BudgetExceededError with no model call made.
C5_BudgetBeforeModel == C5_GuardsFirst /\ []C5_ZeroBudget

\* C5 as claimed: with max_tool_calls = 0 every run raises
\* BudgetExceededError with no model call made
C5_Original ==
    \A r \in Runs :
        (pc[r] = "done" /\ policy.max_tool_calls = 0) =>
            /\ outcome[r] = [kind |-> "raise", value |-> "BudgetExceededError"]
            /\ model_calls[r] = << >>

\* a run with max_tool_calls = 0 and an iteration to make ended in
\* BudgetExceededError before any model call
C5_Witness ==
    \E r \in Runs :
        /\ pc[r] = "done"
        /\ policy.max_tool_calls = 0
        /\ max_iterations[r] >= 1
        /\ outcome[r] = [kind |-> "raise", value |-> "BudgetExceededError"]
        /\ model_calls[r] = << >>

\* every model call of run r returned at least one invocation
AllTurnsProposed(r) ==
    \A i \in 1..Len(model_calls[r]) :
        ~model_calls[r][i].raised /\ model_calls[r][i].proposed >= 1

\* C6: a policy that configures no limits has both unbounded, and a run under
\* it whose model proposes an invocation on every turn makes max_iterations
\* model calls and ends in MaxIterationsError, not BudgetExceededError.
C6_NoLimitsMaxIterations ==
    /\ DOMAIN policy.limits = {} =>
          /\ policy.max_tool_calls = Inf
          /\ policy.max_runtime_seconds = Inf
    /\ \A r \in Runs :
          (pc[r] = "done" /\ DOMAIN policy.limits = {} /\ AllTurnsProposed(r)) =>
              /\ outcome[r] = [kind |-> "raise", value |-> "MaxIterationsError"]
              /\ Len(model_calls[r]) = max_iterations[r]

\* a run without limits went through two or more turns of proposals
C6_Witness ==
    \E r \in Runs :
        /\ pc[r] = "done"
        /\ DOMAIN policy.limits = {}
        /\ AllTurnsProposed(r)
        /\ max_iterations[r] >= 2
        /\ Len(model_calls[r]) = max_iterations[r]
        /\ tool_call_count[r] >= 3

\* the last element of a non-empty sequence
Last(seq) == seq[Len(seq)]

\* C7: when a model turn proposes no invocation, the run is done at once and
\* returns the content of that turn, "" when the content is None; in that
\* iteration Policy.validate is not called, no tool is executed and the
\* conversation is not extended.
C7_NoToolsCompletes ==
    [][\A r \in Runs :
         (/\ pc[r] = "chat"
          /\ Len(model_calls'[r]) = Len(model_calls[r]) + 1
          /\ ~Last(model_calls'[r]).raised
          /\ Last(model_calls'[r]).proposed = 0) =>
             /\ pc'[r] = "done"
             /\ outcome'[r] =
                  [kind |-> "return",
                   value |-> IF content'[r] = NoneContent THEN ""
                             ELSE content'[r].text]
             /\ validated'[r] = validated[r]
             /\ executed'[r] = executed[r]
             /\ messages'[r] = messages[r]]_vars

\* a run returned "" for a turn without content, after a turn with tools
C7_Witness ==
    \E r \in Runs :
        /\ pc[r] = "done"
        /\ outcome[r] = [kind |-> "return", value |-> ""]
        /\ content[r] = NoneContent
        /\ Len(model_calls[r]) >= 2

\* the content _tool_error_result gives a result entry for an error text
ErrorContent(text, reason) == [kind |-> "error", text |-> text, reason |-> reason]

\* C8: an Exception of tool.execute does not end the run: it becomes the
\* result entry of the invocation, with the error text and the call id; the
\* other invocations of the turn are processed and the loop goes on to the
\* next iteration.
C8_ToolFailureRecovered ==
    \A r \in Runs : \A i \in 1..Len(executed[r]) :
        LET e == executed[r][i]
        IN ~e.ok =>
             \/ /\ InProgress(r, e.call_id)
                /\ (pc[r] = "tally" /\ CurrentCall(r).call_id = e.call_id) =>
                      /\ result[r].role = "tool"
                      /\ result[r].tool_call_id = e.call_id
                      /\ result[r].content = ErrorContent("tool failed", NoReason)
             \/ /\ Recorded(r, e.call_id, ErrorContent("tool failed", NoReason))
                /\ iteration[r] >= TurnOfCall(r, e.call_id)

\* the first invocation of a turn failed, the second one was executed too,
\* and the run has gone on to the model call of the next iteration
C8_Witness ==
    \E r \in Runs :
        /\ pc[r] = "chat"
        /\ Len(executed[r]) >= 2
        /\ ~executed[r][1].ok
        /\ executed[r][1].call_id = CallId(r, 1, 1)
        /\ executed[r][2].call_id = CallId(r, 1, 2)
        /\ Recorded(r, executed[r][1].call_id, ErrorContent("tool failed", NoReason))

\* the exceptions of the model that are neither of run's own two
Unclassified == {"Exception", "AttributeError", "TypeError"}

\* C9: a policy denial is not raised to the caller of run: the denied
\* invocation gets a result entry that carries the denial reason and the run
\* goes on; run ends with the final text, BudgetExceededError,
\* MaxIterationsError or a re-raised unclassified error.
C9_DenialNotRaised ==
    \A r \in Runs :
        /\ \A j \in 1..Len(validated[r]) :
             LET v == validated[r][j]
                 denial == ErrorContent("Policy denied: {decision.reason}",
                                        v.decision.reason)
             IN (~v.decision.raised /\ ~v.decision.allowed) =>
                  \/ /\ InProgress(r, v.call_id)
                     /\ (pc[r] = "tally" /\ CurrentCall(r).call_id = v.call_id) =>
                           /\ result[r].tool_call_id = v.call_id
                           /\ result[r].content = denial
                  \/ /\ Recorded(r, v.call_id, denial)
                     /\ iteration[r] >= TurnOfCall(r, v.call_id)
        /\ pc[r] = "done" =>
             \/ outcome[r].kind = "return"
             \/ /\ outcome[r].kind = "raise"
                /\ outcome[r].value \in
                      {"BudgetExceededError", "MaxIterationsError"} \cup Unclassified

\* the first invocation of a turn was denied for its domain, the run went on
\* to execute the second one, and the turn is in the conversation
C9_Witness ==
    \E r \in Runs : \E j \in 1..Len(validated[r]) :
        LET v == validated[r][j]
        IN /\ pc[r] = "for"
           /\ ~v.decision.allowed
           /\ v.decision.reason.text
                 = "Domain '{domain}' not in allow_domains: {allow_domains}"
           /\ \E i \in 1..Len(executed[r]) : executed[r][i].call_id = v.call_id + 1
           /\ Recorded(r, v.call_id,
                  ErrorContent("Policy denied: {decision.reason}", v.decision.reason))

\* the runtime_error events of the audit log
RuntimeErrors == {k \in 1..Len(log) : log[k].event_type = "runtime_error"}

\* C10: with an audit sink attached, a run that ends in BudgetExceededError
\* or in MaxIterationsError has recorded exactly one runtime_error event.
C10_TerminalAudited ==
    \A r \in Runs :
        (/\ logger
         /\ pc[r] = "done"
         /\ outcome[r].kind = "raise"
         /\ outcome[r].value \in {"BudgetExceededError", "MaxIterationsError"}) =>
            Cardinality(RuntimeErrors) = 1

\* the runtime_error event of an unclassified failure
IsRuntimeError(event, error) ==
    /\ event.event_type = "runtime_error"
    /\ event.error = [text |-> error, reason |-> NoReason]

C11_HandlerStep ==
    [][\A r \in Runs :
         /\ (/\ pc[r] = "chat"
             /\ Len(model_calls'[r]) = Len(model_calls[r]) + 1
             /\ Last(model_calls'[r]).raised) =>
               /\ pc'[r] = "except"
               /\ exc'[r] \in Unclassified
               /\ log' = log
         /\ (pc[r] = "except" /\ pc'[r] # "except" /\ exc[r] \in Unclassified) =>
               /\ pc'[r] = "done"
               /\ outcome'[r] = [kind |-> "raise", value |-> exc[r]]
               /\ logger => /\ Len(log') = Len(log) + 1
                            /\ SubSeq(log', 1, Len(log)) = log
                            /\ IsRuntimeError(Last(log'), exc[r])
               /\ ~logger => log' = log
               /\ model_calls'[r] = model_calls[r]
               /\ messages'[r] = messages[r]
         /\ pc[r] = "done" =>
               /\ pc'[r] = "done"
               /\ outcome'[r] = outcome[r]
               /\ model_calls'[r] = model_calls[r]]_vars

C11_AuditedOnce ==
    \A r \in Runs :
        (/\ pc[r] = "done"
         /\ outcome[r].kind = "raise"
         /\ outcome[r].value \in Unclassified) =>
            /\ logger => /\ Cardinality(RuntimeErrors) = 1
                         /\ IsRuntimeError(Last(log), outcome[r].value)
            /\ ~logger => log = << >>
            /\ Last(model_calls[r]).raised
            /\ \A i \in 1..(Len(model_calls[r]) - 1) : ~model_calls[r][i].raised

\* C11: a failure in the loop that is neither of run's own two errors, such
\* as an Exception of model_client.chat, is recorded as exactly one
\* runtime_error event when a logger is attached and is re-raised as it is;
\* the run makes no further model call and no further iteration after it.
C11_UnclassifiedAudited == C11_HandlerStep /\ []C11_AuditedOnce

\* a run with a logger whose second model call raised, after a turn of tools,
\* ended in that Exception
C11_Witness ==
    \E r \in Runs :
        /\ logger
        /\ pc[r] = "done"
        /\ outcome[r] = [kind |-> "raise", value |-> "Exception"]
        /\ Len(model_calls[r]) = 2
        /\ Len(log) >= 3

\* the entries of the conversation of run r with the given role
EntriesOf(r, role) == {p \in 1..Len(messages[r]) : messages[r][p].role = role}

\* the model calls of run r that proposed an invocation
ProposingCalls(r) ==
    {i \in 1..Len(model_calls[r]) : model_calls[r][i].proposed >= 1}

C12_Extension ==
    [][\A r \in Runs :
         messages'[r] # messages[r] =>
            LET n == Len(tool_calls[r])
                old == Len(messages[r])
                new == messages'[r]
            IN /\ pc[r] = "append"
               /\ n >= 1
               /\ n = Last(model_calls[r]).proposed
               /\ Len(new) = old + 1 + n
               /\ SubSeq(new, 1, old) = messages[r]
               /\ new[old + 1].role = "assistant"
               /\ Len(new[old + 1].tool_calls) = n
               /\ \A i \in 1..n :
                    /\ new[old + 1].tool_calls[i].id = tool_calls[r][i].call_id
                    /\ new[old + 1].tool_calls[i].function.name = tool_calls[r][i].name
                    /\ new[old + 1].tool_calls[i].function.arguments
                           = tool_calls[r][i].args
                    /\ new[old + 1 + i].role = "tool"
                    /\ new[old + 1 + i].tool_call_id = tool_calls[r][i].call_id
                    /\ new[old + 1 + i].name = tool_calls[r][i].name]_vars

C12_OnePerTurn ==
    \A r \in Runs :
        /\ pc[r] \in {"for", "budget", "chat"} =>
              Cardinality(EntriesOf(r, "assistant")) = Cardinality(ProposingCalls(r))
        /\ Cardinality(EntriesOf(r, "user")) = 1
        /\ messages[r][1].role = "user"

\* C12: the conversation only grows, and each iteration whose turn proposes
\* n >= 1 invocations adds one assistant entry with the n invocations and then
\* n tool entries in the order of the proposals, the i-th with the call id of
\* the i-th invocation, whether it was allowed, denied, failed or unregistered.
C12_ConversationAppendOnly == C12_Extension /\ []C12_OnePerTurn

\* the tool entries of a conversation hold a result, a tool failure, a policy
\* denial and an unregistered tool
C12_Witness ==
    \E r \in Runs :
        /\ \E p \in EntriesOf(r, "tool") : messages[r][p].content.kind = "result"
        /\ \E p \in EntriesOf(r, "tool") : messages[r][p].content.text = "tool failed"
        /\ \E p \in EntriesOf(r, "tool") :
             messages[r][p].content.text = "Policy denied: {decision.reason}"
        /\ \E p \in EntriesOf(r, "tool") :
             messages[r][p].content.text = "Tool '{tool_name}' not found"

(***************************************************************************)
(* Policy.validate called on its own: the policies and the invocations of  *)
(* the rules' cases, and a caller that evaluates invocations one by one.   *)
(***************************************************************************)
MaxEvaluations == 1

Http == <<"h", "t", "t", "p", ":", "/", "/">>
Url(host) == Http \o host \o <<"/">>
UrlPort(host) == Http \o host \o <<":", "8", "0", "/">>

H_example == <<"e", "x", "a", "m", "p", "l", "e", ".", "o", "r", "g">>
H_api == <<"a", "p", "i", ".">> \o H_example
H_not == <<"n", "o", "t">> \o H_example
H_org == <<"o", "r", "g">>
Hosts == {H_example, H_api, H_not, H_org, Host_ab}

\* a url with a userinfo part: http://user:x@host/
H_xc == <<"x", ".", "c">>
UrlUser(user, host) == Http \o user \o <<":", "x", "@">> \o host \o <<"/">>
UserinfoUrls == {Str(UrlUser(H_example, H_xc)), Str(UrlUser(H_xc, H_example))}

S_get == <<"g", "e", "t">>
S_PUT == <<"P", "U", "T">>

P_data_a == <<"/", "d", "a", "t", "a", "/", "a", ".", "t", "x", "t">>
P_data_sub_a ==
    <<"/", "d", "a", "t", "a", "/", "s", "u", "b", "/", "a", ".", "t", "x", "t">>
P_data_dots ==
    <<"/", "d", "a", "t", "a", "/", "/", "s", "u", "b", "/", ".", ".", "/", ".", "/",
      "a", ".", "t", "x", "t">>
P_etc_x == <<"/", "e", "t", "c", "/", "x">>
P_et == <<"/", "e", ".", "t">>
P_d_up_et == <<"/", "d", "/", ".", ".", "/", "e", ".", "t">>
P_dot == <<".">>
Pat_dt_raw == <<"/", "d", "/", "/", ".", "/", "*", ".", "t">>
Pat_data_raw ==
    <<"/", "d", "a", "t", "a", "/", "s", "u", "b", "/", ".", ".", "/", "*", ".", "t", "x", "t">>
Pat_data_txt == <<"/", "d", "a", "t", "a", "/", "*", ".", "t", "x", "t">>
Pat_starstar == <<"*", "*">>

PolicyCases ==
    { EmptyDict,
      [tools |->
          [web_request |-> [allow_domains |-> <<H_example>>, allow_methods |-> <<S_GET>>],
           read_file |-> [allow_paths |-> <<Pat_data_txt>>],
           calc |-> EmptyDict]],
      [tools |->
          [web_request |-> [allow_domains |-> <<S_star>>,
                            allow_methods |-> <<S_GET, S_POST>>],
           read_file |-> [allow_paths |-> <<Pat_starstar>>],
           calc |-> [allow_domains |-> <<S_star>>, allow_methods |-> <<S_GET>>,
                     allow_paths |-> <<Pat_starstar>>]]],
      [tools |->
          [web_request |-> [allow_domains |-> <<Host_ab, H_example>>,
                            allow_methods |-> <<S_star>>],
           read_file |-> [allow_paths |-> <<Pat_dt, Pat_data_txt>>]]],
      [tools |->
          [web_request |-> [allow_domains |-> <<S_star>>, allow_methods |-> <<S_post>>]]],
      [tools |-> [web_request |-> EmptyDict, read_file |-> EmptyDict]],
      [tools |-> [read_file |-> [allow_paths |-> <<Pat_dt_raw, Pat_data_raw>>]]] }

\* url arguments that name no host: missing, empty, a bare path, a scheme
\* with an empty network location, and values that are not strings
MalformedUrls ==
    {Absent, Str(<< >>), Str(<<"/", "x">>), Str(Http \o <<"/", "x">>), None, Num}
Urls ==
    {Str(Url(h)) : h \in Hosts} \cup {Str(UrlPort(h)) : h \in {H_example, H_not}}
        \cup MalformedUrls \cup UserinfoUrls
Methods == {Absent, Str(S_GET), Str(S_get), Str(S_post), Str(S_star), Str(S_PUT)}
Paths ==
    {Str(P_data_a), Str(P_data_sub_a), Str(P_data_dots), Str(Path_dft), Str(P_etc_x),
     Str(P_et), Str(P_d_up_et), Str(P_dot), Absent, Str(<< >>), None, Num}

\* the invocations handed to Policy.validate: name and args
Invocations ==
    {[name |-> "web_request", args |-> [url |-> u, method |-> m, path |-> Absent]] :
         u \in Urls, m \in Methods}
    \cup {[name |-> "web_request",
           args |-> [url |-> Str(Url(H_example)), method |-> Num, path |-> Absent]]}
    \cup {[name |-> "read_file", args |-> [url |-> Absent, method |-> Absent, path |-> q]] :
              q \in Paths}
    \cup {[name |-> n, args |-> a] :
              n \in {"calc", "ghost"}, a \in {NoArgs, WebGet.args, ReadFile.args}}

\* WebRequestTool.execute: the host requests.get(url) / requests.post(url)
\* connects to, which is what follows the userinfo in the network location,
\* up to the port
TargetHost(url) ==
    LET netloc == NetlocOf(url).netloc
        ats == {i \in 1..Len(netloc) : netloc[i] = "@"}
        at == IF ats = {} THEN 0 ELSE CHOOSE i \in ats : \A j \in ats : j <= i
    IN Split(Tail_(netloc, at + 1), ":")[1]

\* a Policy is loaded and no run is started
PolicyInit ==
    /\ policy \in {PolicyOf(d) : d \in PolicyCases}
    /\ tools = {"web_request", "read_file", "calc"}
    /\ logger = FALSE
    /\ log = << >>
    /\ clock = 0
    /\ repertoire = {}
    /\ LocalsInit({})

\* policy.validate(tool_name, tool_args): the decision goes to the caller r
Evaluate(r, inv) ==
    /\ pc[r] = "idle"
    /\ Len(validated[r]) < MaxEvaluations
    /\ validated' = [validated EXCEPT ![r] =
          Append(@, [call_id |-> 0, name |-> inv.name, args |-> inv.args,
                     decision |-> validate(policy, inv.name, inv.args)])]
    /\ UNCHANGED <<shared, log, clock, pc, max_iterations, locals, model_calls, executed>>

PolicyNext == \E inv \in Invocations : Evaluate(1, inv)

PolicySpec == PolicyInit /\ [][PolicyNext]_vars

\* the decisions Policy.validate gave for web_request under a policy that
\* has a rule for it, the method being a string or left out
WebDecisions ==
    {v \in UNION {RangeOf(validated[r]) : r \in Runs} :
        /\ v.name = "web_request"
        /\ "web_request" \in DOMAIN policy.tools
        /\ v.args.method.t \in {"str", "absent"}}

allow_domains == Get(Get(policy.tools, "web_request", EmptyDict), "allow_domains", EmptyList)
allow_methods == Get(Get(policy.tools, "web_request", EmptyDict), "allow_methods", EmptyList)

\* the decision is not a denial for the url or for the domain
DomainPermitted(d) ==
    /\ ~d.raised
    /\ d.reason.text \notin
          {"Invalid URL format: {url}",
           "Domain '{domain}' not in allow_domains: {allow_domains}"}

\* host is entry, or a name under entry
SubdomainOf(host, entry) ==
    \/ host = entry
    \/ /\ Len(host) > Len(entry)
       /\ host[Len(host) - Len(entry)] = "."
       /\ \A i \in 1..Len(entry) : host[Len(host) - Len(entry) + i] = entry[i]

\* C13: without "*" in allow_domains a web request is permitted for its
\* domain exactly when its host is an entry of allow_domains or ends with "."
\* and an entry (example.org permits api.example.org, not notexample.org);
\* with "*" in allow_domains every host is permitted.
C13_DomainRule ==
    \A v \in WebDecisions : \A h \in Hosts :
        v.args.url \in {Str(Url(h)), Str(UrlPort(h))} =>
            /\ InList(S_star, allow_domains) => DomainPermitted(v.decision)
            /\ ~InList(S_star, allow_domains) =>
                  (DomainPermitted(v.decision)
                      <=> \E i \in 1..Len(allow_domains) : SubdomainOf(h, allow_domains[i]))
            /\ (allow_domains = <<H_example>> /\ h = H_api) => DomainPermitted(v.decision)
            /\ (allow_domains = <<H_example>> /\ h = H_not) => ~DomainPermitted(v.decision)

\* under allow_domains ["example.org"] a GET of http://api.example.org/ was
\* allowed
C13_Witness ==
    \E v \in WebDecisions :
        /\ allow_domains = <<H_example>>
        /\ v.args.url = Str(Url(H_api))
        /\ v.decision.allowed

\* the method of a request: "GET" when the argument is left out
MethodOf(args) == IF args.method.t = "absent" THEN S_GET ELSE args.method.v

\* the upper-case spelling of the methods of the model
Canon(m) ==
    CASE m = S_get -> S_GET
      [] m = S_post -> S_POST
      [] OTHER -> m

\* C14: a web request that is permitted for its domain is allowed exactly
\* when its method in upper case is an entry of allow_methods, also when
\* allow_domains holds "*"; two requests that differ in the letter case of
\* the method get the same decision; "*" in allow_methods stands for no
\* other method.
C14_MethodRule ==
    \A v \in WebDecisions :
        LET m == MethodOf(v.args)
        IN DomainPermitted(v.decision) =>
             /\ v.decision.allowed <=> InList(Canon(m), allow_methods)
             /\ \A m2 \in Methods :
                  Canon(MethodOf([v.args EXCEPT !.method = m2])) = Canon(m) =>
                      validate(policy, v.name, [v.args EXCEPT !.method = m2]).allowed
                          = v.decision.allowed
             /\ (InList(S_star, allow_methods) /\ ~InList(Canon(m), allow_methods)) =>
                  ~v.decision.allowed

\* under allow_methods ["GET"] a request with method "get" to an allowed
\* domain was allowed
C14_Witness ==
    \E v \in WebDecisions :
        /\ allow_methods = <<S_GET>>
        /\ allow_domains = <<H_example>>
        /\ v.args.method = Str(S_get)
        /\ v.decision.allowed

\* under allow_methods ["*"] a GET to an allowed domain was denied for its
\* method
C14_StarWitness ==
    \E v \in WebDecisions :
        /\ allow_methods = <<S_star>>
        /\ v.args.method = Str(S_GET)
        /\ v.decision.reason.text
              = "HTTP method '{method}' not in allow_methods: {allow_methods}"

\* the decisions Policy.validate gave for read_file under a policy that has
\* a rule for it
FileDecisions ==
    {v \in UNION {RangeOf(validated[r]) : r \in Runs} :
        v.name = "read_file" /\ "read_file" \in DOMAIN policy.tools}

allow_paths == Get(Get(policy.tools, "read_file", EmptyDict), "allow_paths", EmptyList)

\* C15: an allow_paths list that holds "**" allows every path that is
\* supplied, and a pattern of one segment does not match across "/": under
\* allow_paths ["/data/*.txt"] the path /data/a.txt is allowed and the path
\* /data/sub/a.txt is denied.
C15_GlobWithinSegment ==
    \A v \in FileDecisions :
        /\ (InList(Pat_starstar, allow_paths) /\ v.args.path.t = "str"
               /\ v.args.path.v # << >>) =>
              v.decision.allowed
        /\ (allow_paths = <<Pat_data_txt>> /\ v.args.path = Str(P_data_a)) =>
              v.decision.allowed
        /\ (allow_paths = <<Pat_data_txt>> /\ v.args.path = Str(P_data_sub_a)) =>
              ~v.decision.allowed

\* C16: a web_request whose url is malformed (missing, empty, without a
\* host, or not a string) is denied by Policy.validate under every policy,
\* one with "*" in allow_domains included, and validate does not raise for it.
C16_MalformedUrlDenied ==
    \A v \in WebDecisions :
        v.args.url \in MalformedUrls =>
            ~v.decision.raised /\ ~v.decision.allowed

\* the tools that have a rule evaluator (policy.py lines 56-59)
RuleKinds == {"web_request", "read_file"}

\* C17: a tool that has an entry in the policy's tools but no rule evaluator
\* is denied by Policy.validate whatever its rule parameters and arguments,
\* and the reason is not that of the default deny.
C17_NoEvaluatorDenied ==
    \A r \in Runs : \A j \in 1..Len(validated[r]) :
        LET v == validated[r][j]
        IN (v.name \in DOMAIN policy.tools /\ v.name \notin RuleKinds) =>
             /\ ~v.decision.raised
             /\ ~v.decision.allowed
             /\ v.decision.reason.text = "No validation logic for tool '{tool_name}'"
             /\ v.decision.reason.tool = v.name
             /\ v.decision.reason # DefaultDeny(v.name).reason

\* calc, whose entry in the policy holds the parameters of both rules with
\* their wildcards, was evaluated with the arguments of a web request
C17_Witness ==
    \E r \in Runs : \E j \in 1..Len(validated[r]) :
        LET v == validated[r][j]
        IN /\ v.name = "calc"
           /\ "calc" \in DOMAIN policy.tools
           /\ policy.tools.calc # EmptyDict
           /\ v.args = WebGet.args
           /\ ~v.decision.allowed

(***************************************************************************)
(* Two threads call run on one AgentRuntime, each with its own messages.   *)
(***************************************************************************)
ConcurrentTurns ==
    { Turn(Text("answer"), << >>),
      Turn(NoneContent, <<WebPost, WebGet>>) }

ConcurrentInit ==
    /\ policy \in {PolicyOf([tools |-> RestrictedTools,
                             limits |-> [max_tool_calls |-> 1]]),
                   PolicyOf([tools |-> RestrictedTools,
                             limits |-> [max_tool_calls |-> 3,
                                         max_runtime_seconds |-> 1]])}
    /\ tools = {"web_request", "read_file", "calc"}
    /\ logger = FALSE
    /\ log = << >>
    /\ clock = 0
    /\ repertoire = ConcurrentTurns
    /\ LocalsInit(Runs)
    /\ \A r \in Runs : max_iterations[r] >= 1

ConcurrentSpec == ConcurrentInit /\ [][Next]_vars

\* the locals of run r and the calls it made
LocalsOf(r) ==
    <<max_iterations[r], messages[r], start_time[r], tool_call_count[r], iteration[r],
      content[r], tool_calls[r], tc_index[r], tool_results[r], result[r], exc[r],
      outcome[r], model_calls[r], validated[r], executed[r]>>

\* the invocations run r has processed, by its own conversation and turn
ProcessedBy(r) ==
    Cardinality(ToolEntries(r))
        + (IF pc[r] \in {"tool", "execute", "tally", "append"}
           THEN Len(tool_results[r]) ELSE 0)

C19_OwnLocals ==
    [][\A r \in Runs :
         /\ pc'[r] = pc[r] => LocalsOf(r)' = LocalsOf(r)
         /\ pc[r] # "start" => start_time'[r] = start_time[r]
         /\ (pc[r] = "start" /\ pc'[r] # "start") =>
               start_time'[r] = clock /\ tool_call_count'[r] = 0
         /\ (pc[r] = "budget" /\ pc'[r] # "budget") =>
               (pc'[r] = "except" <=> OverBudget(r, clock'))]_vars

C19_AsAlone ==
    \A r \in Runs :
        /\ pc[r] # "start" => tool_call_count[r] = ProcessedBy(r)
        /\ start_time[r] <= clock
        /\ pc[r] = "done" =>
             \/ /\ outcome[r] = [kind |-> "return", value |-> ContentOrEmpty(content[r])]
                /\ ~Last(model_calls[r]).raised
                /\ Last(model_calls[r]).proposed = 0
             \/ /\ outcome[r] = [kind |-> "raise", value |-> "Exception"]
                /\ Last(model_calls[r]).raised
             \/ /\ outcome[r] = [kind |-> "raise", value |-> "MaxIterationsError"]
                /\ AllTurnsProposed(r)
                /\ Len(model_calls[r]) = max_iterations[r]
             \/ /\ outcome[r] = [kind |-> "raise", value |-> "BudgetExceededError"]
                /\ AllTurnsProposed(r)
                /\ Len(model_calls[r]) < max_iterations[r]
                /\ OverBudget(r, clock)

\* C19: two runs at once on one AgentRuntime and one Policy, each with its
\* own conversation, do not interfere: a step of one run leaves the counter,
\* the start time and the other locals of the other run as they are, each
\* budget check decides on the run's own counter and start time, and the
\* counter and the outcome of each run are those its own turns give it.
C19_RunsDoNotInterfere == C19_OwnLocals /\ []C19_AsAlone

\* both runs are in the middle of a turn, started at different times, one in
\* its first turn and the other in its second
C19_Witness ==
    /\ pc[1] = "execute"
    /\ pc[2] = "execute"
    /\ start_time[1] # start_time[2]
    /\ tool_call_count[1] = 1
    /\ tool_call_count[2] = 3

\* one run has ended in BudgetExceededError while the other, under the same
\* policy, goes on
C19_OutcomeWitness ==
    /\ pc[1] = "done"
    /\ outcome[1] = [kind |-> "raise", value |-> "BudgetExceededError"]
    /\ pc[2] = "tally"
    /\ tool_call_count[2] = 0

\* C20 (amended): a model turn is requested only while the counter, and so
\* the number of executions, is below max_tool_calls; the guard is at the
\* start of an iteration only, so the invocations of a turn are all processed
\* and the executions of a run never exceed max_tool_calls - 1 plus the
\* number of invocations of its last turn.
C20_OvershootWithinTurn ==
    \A r \in Runs :
        /\ pc[r] = "chat" =>
              /\ tool_call_count[r] < policy.max_tool_calls
              /\ Len(executed[r]) < policy.max_tool_calls
        /\ Len(executed[r]) <= tool_call_count[r] + 1
        /\ model_calls[r] = << >> => executed[r] = << >>
        /\ model_calls[r] # << >> =>
              Len(executed[r])
                  <= policy.max_tool_calls - 1 + Last(model_calls[r]).proposed

\* C20 as claimed: the executions of a run never exceed max_tool_calls
C20_Original ==
    \A r \in Runs : Len(executed[r]) <= policy.max_tool_calls

\* under max_tool_calls = 1 a turn of two allowed invocations was executed
\* in full
C20_Witness ==
    \E r \in Runs :
        /\ policy.max_tool_calls = 1
        /\ Len(model_calls[r]) = 1
        /\ Len(executed[r]) = 2
        /\ pc[r] = "done"
        /\ outcome[r] = [kind |-> "raise", value |-> "BudgetExceededError"]

\* C21: under allow_domains without "*" a web request is allowed only if
\* the host it is sent to is an entry of allow_domains or a name under one:
\* the domain the policy takes from the url is the host of the url, for urls
\* with a port and for urls with a userinfo part too.
C21_RealHostMatched ==
    \A v \in WebDecisions :
        (/\ v.args.url.t = "str"
         /\ v.args.url \notin MalformedUrls
         /\ ~InList(S_star, allow_domains)
         /\ v.decision.allowed) =>
            \E i \in 1..Len(allow_domains) :
                SubdomainOf(TargetHost(v.args.url.v), allow_domains[i])

\* the places of the audit log that hold an event of the given kind, in order
EventsOf(event_type) ==
    SelectSeq([i \in 1..Len(log) |-> i], LAMBDA i : log[i].event_type = event_type)

\* the places of the tool_result events that tool.execute gave rise to
ExecutionResults ==
    SelectSeq(EventsOf("tool_result"),
              LAMBDA i : log[i].error.text # "Tool '{tool_name}' not found")

\* the validate calls of run r that allowed, in order
AllowedCalls(r) ==
    SelectSeq([j \in 1..Len(validated[r]) |-> j],
              LAMBDA j : validated[r][j].decision.allowed)

C22_Steps ==
    [][/\ Len(log') >= Len(log)
       /\ SubSeq(log', 1, Len(log)) = log
       /\ \A r \in Runs :
            /\ (logger /\ Len(validated'[r]) = Len(validated[r]) + 1) =>
                  LET v == Last(validated'[r])
                  IN /\ Len(log') = Len(log) + 1
                     /\ Last(log').event_type = "tool_validation"
                     /\ Last(log').tool_name = v.name
                     /\ Last(log').args = v.args
                     /\ Last(log').allowed = v.decision.allowed
                     /\ Last(log').reason = v.decision.reason
                     /\ executed'[r] = executed[r]
            /\ (logger /\ Len(executed'[r]) = Len(executed[r]) + 1) =>
                  /\ Len(log') = Len(log) + 1
                  /\ Last(log').event_type = "tool_result"
                  /\ Last(log').tool_name = Last(executed'[r]).name
                  /\ Last(log').success = Last(executed'[r]).ok
                  /\ Last(log).event_type = "tool_validation"
                  /\ Last(log).tool_name = Last(executed'[r]).name
                  /\ Last(log).allowed]_vars

C22_Order ==
    \A r \in Runs :
        (logger /\ pc[r] # "idle") =>
            /\ Len(EventsOf("tool_validation")) = Len(validated[r])
            /\ Len(ExecutionResults) = Len(executed[r])
            /\ Len(AllowedCalls(r)) - Len(executed[r]) \in {0, 1}
            /\ \A j \in 1..Len(validated[r]) :
                 LET event == log[EventsOf("tool_validation")[j]]
                 IN /\ event.tool_name = validated[r][j].name
                    /\ event.args = validated[r][j].args
                    /\ event.allowed = validated[r][j].decision.allowed
                    /\ event.reason = validated[r][j].decision.reason
            /\ \A k \in 1..Len(executed[r]) :
                 LET j == AllowedCalls(r)[k]
                 IN /\ validated[r][j].call_id = executed[r][k].call_id
                    /\ EventsOf("tool_validation")[j] < ExecutionResults[k]
                    /\ j < Len(validated[r]) =>
                          ExecutionResults[k] < EventsOf("tool_validation")[j + 1]

CallIds(seq) == [i \in 1..Len(seq) |-> seq[i].call_id]

\* a sequence of numbers grows strictly
Increasing(seq) == \A i, j \in 1..Len(seq) : i < j => seq[i] < seq[j]

C23_NextTurnAfterResults ==
    [][\A r \in Runs :
         Len(model_calls'[r]) = Len(model_calls[r]) + 1 =>
            /\ Last(model_calls'[r]).seen = messages[r]
            /\ model_calls[r] # << >> =>
                  LET n == Last(model_calls[r]).proposed
                      m == Len(messages[r])
                  IN /\ n = Len(tool_calls[r])
                     /\ Len(tool_results[r]) = n
                     /\ SubSeq(messages[r], m - n + 1, m) = tool_results[r]
                     /\ messages[r][m - n].role = "assistant"
                     /\ SubSeq(messages[r], 1, m - n - 1) = Last(model_calls[r]).seen
                     /\ \A i \in 1..n :
                          messages[r][m - n + i].tool_call_id = tool_calls[r][i].call_id]_vars

C23_InOrder ==
    \A r \in Runs :
        /\ pc[r] \in {"tool", "execute", "tally"} =>
              /\ Len(tool_results[r]) = tc_index[r] - 1
              /\ \A k \in 1..Len(tool_results[r]) :
                   tool_results[r][k].tool_call_id = tool_calls[r][k].call_id
        /\ pc[r] = "append" => Len(tool_results[r]) = Len(tool_calls[r])
        /\ Increasing(CallIds(validated[r]))
        /\ Increasing(CallIds(executed[r]))
        /\ Increasing(CallIds(tool_calls[r]))

\* C23: the invocations of a model turn are processed one at a time in the
\* order of the turn, and all of them are processed and the conversation
\* holds the assistant entry and their results before the next model turn is
\* requested; the next model call is given that whole conversation.
C23_StrictlySequential == C23_NextTurnAfterResults /\ []C23_InOrder

\* the second model call of a run was given the prompt, the assistant entry
\* of the first turn and the results of its two invocations
C23_Witness ==
    \E r \in Runs :
        /\ Len(model_calls[r]) = 2
        /\ Len(model_calls[r][2].seen) = 4
        /\ model_calls[r][2].seen[3].role = "tool"
        /\ model_calls[r][2].seen[4].role = "tool"

\* the invocations proposed to run r whose tool is not registered and that
\* the run has been through
UnregisteredDone(r) ==
    {p \in ToolEntries(r) : messages[r][p].name \notin tools}

C24_Step ==
    [][\A r \in Runs :
         (pc[r] = "tool" /\ pc'[r] # "tool" /\ CurrentCall(r).name \notin tools) =>
            /\ validated'[r] = validated[r]
            /\ executed'[r] = executed[r]
            /\ result'[r].role = "tool"
            /\ result'[r].tool_call_id = CurrentCall(r).call_id
            /\ result'[r].content = ErrorContent("Tool '{tool_name}' not found", NoReason)
            /\ pc'[r] = "tally"
            /\ exc'[r] = exc[r]]_vars

C24_Entries ==
    \A r \in Runs :
        /\ \A p \in UnregisteredDone(r) :
             LET m == messages[r][p]
             IN /\ m.content = ErrorContent("Tool '{tool_name}' not found", NoReason)
                /\ m.tool_call_id \notin RangeOf(CallIds(validated[r]))
                /\ m.tool_call_id \notin RangeOf(CallIds(executed[r]))
                /\ Recorded(r, m.tool_call_id, m.content)
        /\ \A j \in 1..Len(validated[r]) : validated[r][j].name \in tools
        /\ \A i \in 1..Len(executed[r]) : executed[r][i].name \in tools

\* C24: for a proposed invocation whose tool is not registered the runtime
\* does not call Policy.validate and executes nothing; it makes an error
\* entry with the invocation's call id and goes on with the next invocation.
C24_UnregisteredSkipped == C24_Step /\ []C24_Entries

\* the first invocation of a turn named an unregistered tool and the second
\* one went to Policy.validate
C24_Witness ==
    \E r \in Runs :
        /\ pc[r] = "for"
        /\ Len(messages[r]) >= 4
        /\ messages[r][3].role = "tool"
        /\ messages[r][3].name \notin tools
        /\ messages[r][3].tool_call_id = CallId(r, 1, 1)
        /\ validated[r] # << >>
        /\ validated[r][1].call_id = CallId(r, 1, 2)

\* what os.path.normpath gives for the path spellings of Paths
C25_NormalForm(path) ==
    CASE path = P_data_dots -> P_data_a
      [] path = P_d_up_et -> P_et
      [] path = << >> -> P_dot
      [] OTHER -> path

\* the path argument as a string, "" when it is left out
C25_PathString(args) == ArgGet(args, "path", Str(<< >>))

\* the path arguments that are strings, and those that are not empty
C25_PathArgs == {q \in Paths : q.t \in {"str", "absent"}}
C25_Supplied == {q \in C25_PathArgs : C25_PathString([path |-> q]).v # << >>}

\* every path argument of qs that normalizes as the one of decision v has
\* the allowed value of v
C25_SameAllowed(v, qs) ==
    \A q \in qs :
        C25_NormalForm(C25_PathString([path |-> q]).v)
                = C25_NormalForm(C25_PathString(v.args).v) =>
            validate(policy, v.name, [v.args EXCEPT !.path = q]).allowed
                = v.decision.allowed

\* two rules for read_file whose patterns are spelled differently and
\* normalize to the same strings
C25_RawRule == [read_file |-> [allow_paths |-> <<Pat_dt_raw, Pat_data_raw>>]]
C25_NormalRule == [read_file |-> [allow_paths |-> <<Pat_dt, Pat_data_txt>>]]

\* under either of the two rules a path gets the allowed value it gets
\* under the other
C25_SamePatterns ==
    \A v \in FileDecisions :
        (policy.tools = C25_RawRule /\ v.args.path.t \in {"str", "absent"}) =>
            validate(PolicyOf([tools |-> C25_NormalRule]), v.name, v.args).allowed
                = v.decision.allowed

\* a path that is missing, empty or None is denied as not provided
C25_NoPathDenied ==
    \A v \in FileDecisions :
        ~Truthy(C25_PathString(v.args)) =>
            /\ ~v.decision.allowed
            /\ v.decision.reason.text = "No path provided"

\* C25 as stated: any two path arguments that normalize to the same string
\* get the same allowed value under every policy, the empty path and "."
\* among them.
C25_Original ==
    \A v \in FileDecisions :
        v.args.path.t \in {"str", "absent"} => C25_SameAllowed(v, C25_PathArgs)

\* C25: two path arguments that are not empty and normalize to the same
\* string get the same allowed value under every policy, and so do two
\* policies whose patterns normalize to the same strings; a missing or empty
\* path is denied before any pattern is looked at, also when allow_paths
\* holds "**".
C25_DependsOnNormalizedPath ==
    /\ \A v \in FileDecisions :
          (v.args.path.t = "str" /\ v.args.path.v # << >>) =>
              C25_SameAllowed(v, C25_Supplied)
    /\ C25_SamePatterns
    /\ C25_NoPathDenied

\* /d/../e.t, which matches /d/*.t as it is spelled, was denied under
\* allow_paths that hold /d/*.t, as /e.t is
C25_Witness ==
    \E v \in FileDecisions :
        /\ InList(Pat_dt, allow_paths)
        /\ v.args.path = Str(P_d_up_et)
        /\ fnmatch(P_d_up_et, Pat_dt)
        /\ ~v.decision.allowed
        /\ ~validate(policy, v.name, [v.args EXCEPT !.path = Str(P_et)]).allowed

\* the empty path was denied under allow_paths that hold "**"
C25_EmptyWitness ==
    \E v \in FileDecisions :
        /\ InList(Pat_starstar, allow_paths)
        /\ v.args.path = Str(<< >>)
        /\ ~v.decision.allowed

(***************************************************************************)
(* Policy.load followed by the runs of an AgentRuntime on what it returns. *)
(***************************************************************************)
\* what Policy.load finds at yaml_path: no file, an empty file, a mapping
\* whose tools or limits section is null or a number, a negative limit, and
\* the well-formed documents
PolicyFiles ==
    PolicyDocuments
    \cup { Absent, None,
           [tools |-> None],
           [tools |-> Num, limits |-> [max_tool_calls |-> 1]],
           [tools |-> RestrictedTools, limits |-> None],
           [limits |-> Num],
           [tools |-> OpenTools, limits |-> [max_tool_calls |-> -1]],
           [tools |-> OpenTools, limits |-> [max_runtime_seconds |-> -1]] }

\* The state after policy = Policy.load(yaml_path) and, when load returned,
\* AgentRuntime(model_client, tools, policy, logger); no runtime is built
\* and no run is called when load raised
LoadInit ==
    /\ policy \in {load(f) : f \in PolicyFiles}
    /\ log = << >>
    /\ clock = 0
    /\ repertoire = Turns
    /\ IF Loaded(policy)
       THEN /\ tools \in Registries
            /\ logger \in BOOLEAN
            /\ LocalsInit({1})
       ELSE /\ tools = {}
            /\ logger = FALSE
            /\ LocalsInit({})

LoadSpec == LoadInit /\ [][Next]_vars

\* the document Policy.load read
C26_Document ==
    IF Loaded(policy)
    THEN [tools |-> policy.tools, limits |-> policy.limits]
    ELSE policy.policy_data

\* a mapping whose tools or limits section is not a mapping or that holds
\* a negative limit
C26_Malformed(policy_data) ==
    /\ IsMapping(policy_data)
    /\ LET limits == Get(policy_data, "limits", EmptyDict)
       IN \/ ~IsMapping(Get(policy_data, "tools", EmptyDict))
          \/ ~IsMapping(limits)
          \/ IsMapping(limits) /\ \E k \in DOMAIN limits : limits[k] < 0

\* C26: for a policy document whose tools or limits section is not a
\* mapping, or that holds a limit that is not a non-negative number,
\* Policy.load raises the invalid-configuration error (ValueError), so no run
\* starts and no run ends with an error that comes from the document.
C26_MalformedRejected ==
    C26_Malformed(C26_Document) =>
        /\ ~Loaded(policy)
        /\ policy.load_error = "ValueError"
        /\ \A r \in Runs : pc[r] = "idle"

\* a run that was called ends
C27_Ends == \A r \in Runs : (pc[r] = "start") ~> (pc[r] = "done")

\* what a run may end in: the returned answer, BudgetExceededError,
\* MaxIterationsError or the exception of the model client
C27_Endings ==
    {[kind |-> "return", value |-> ContentOrEmpty(turn.content)] : turn \in Turns}
    \cup {[kind |-> "raise", value |-> e] :
              e \in {"BudgetExceededError", "MaxIterationsError", "Exception"}}

\* never more than max_iterations model calls; a run that has ended has
\* one of the endings, MaxIterationsError only after max_iterations model
\* calls that all returned
C27_Bounded ==
    \A r \in Runs :
        /\ Len(model_calls[r]) <= max_iterations[r]
        /\ pc[r] = "done" =>
              /\ outcome[r] \in C27_Endings
              /\ outcome[r].value = "MaxIterationsError" =>
                    /\ Len(model_calls[r]) = max_iterations[r]
                    /\ \A i \in 1..Len(model_calls[r]) : ~model_calls[r][i].raised
              /\ max_iterations[r] = 0 =>
                    /\ model_calls[r] = << >>
                    /\ outcome[r] = [kind |-> "raise", value |-> "MaxIterationsError"]

\* C27: when every model call and every tool execution returns, every run
\* ends, with its answer, BudgetExceededError, MaxIterationsError or a
\* re-raised error, after at most max_iterations model calls; with
\* max_iterations = 0 it makes no model call and raises MaxIterationsError.
C27_RunTerminates == C27_Ends /\ []C27_Bounded

\* a run ended in MaxIterationsError after MaxIterations model calls
C27_Witness ==
    \E r \in Runs :
        /\ pc[r] = "done"
        /\ max_iterations[r] = MaxIterations
        /\ Len(model_calls[r]) = MaxIterations
        /\ outcome[r] = [kind |-> "raise", value |-> "MaxIterationsError"]

\* a run with max_iterations = 0 ended in MaxIterationsError with no model
\* call
C27_ZeroWitness ==
    \E r \in Runs :
        /\ pc[r] = "done"
        /\ max_iterations[r] = 0
        /\ model_calls[r] = << >>
        /\ outcome[r] = [kind |-> "raise", value |-> "MaxIterationsError"]

====
